---- MODULE Spec2Model ----
(***************************************************************************)
(* Nyx: the task graph, the planner's plan ingestion and DAG validation,   *)
(* the Orchestrator's dispatch loop and the LockManager as used by the     *)
(* WorkerAgent's write sections.                                           *)
(*                                                                         *)
(* Spec      : one run of Orchestrator.startProcessingObjective            *)
(* LockSpec  : task executions sharing one LockManager                     *)
(* StaleSpec : the same executions facing the marker of a dead holder      *)
(* DagSpec   : PlannerAgent.validateDAG applied to arbitrary task graphs   *)
(* GraphSpec : a TaskGraph driven through its methods in any order         *)
(* StatsSpec : runs on one Orchestrator instance with the statsUpdate       *)
(*             triggers (timer, LLM call counter) and resubmission          *)
(* FaultSpec : the executions when a held lock marker can disappear         *)
(***************************************************************************)
EXTENDS Integers, Sequences, FiniteSets, TLC

\* ------------------------------------------------------------------ bounds
\* largest number of items in a plan returned by the LLM
MaxTasks == 3

\* number of task executions that share the LockManager
NumExecs == 3

\* largest total number of dependsOn entries of a graph handed to validateDAG
MaxDepEntries == 3

\* largest number of tasks added to a TaskGraph driven through its methods
MaxApiTasks == 2

\* largest total of retries increments, over all tasks, of such a graph
MaxMarks == 3

\* ------------------------------------------------------- program constants
\* Orchestrator.maxRetries
maxRetries == 3
\* const MAX_CONSECUTIVE_FAILURES in executeTasks
MAX_CONSECUTIVE_FAILURES == 5
\* retries: { retries: 5, ... } of the lockfile.lock call in acquireLock
LockRetries == 5
\* stale: 15000 of the same call, in ms
StaleMs == 15000

VARIABLES
    plan,                 \* parsedPlan: the JSON array the LLM returned
    planOnly,             \* config.planOnly
    tasks,                \* Orchestrator.tasks (TaskGraph.tasks), <<>> while undefined
    pc,                   \* position of startProcessingObjective / executeTasks
    taskToRun,            \* id of taskToRun, 0 when none
    consecutiveFailures,  \* local of executeTasks
    activeAgents,         \* stats.activeAgents (its key set)
    emitted,              \* terminal events emitted so far
    runError,             \* which error ended the run ("none" when none)
    view,                 \* status per task as a taskStatusUpdate consumer sees it
    events,               \* per task: the statuses of its taskStatusUpdate events,
                          \* in the order of emission
    statsUpdates,         \* the statsUpdate events of the last step that emitted
                          \* any: payload, the graph (this.tasks) just then, and
                          \* whether the run's plan was not ready yet
    agentUpdate,          \* the last agentStatusUpdate event as a listener gets
                          \* it: the ids of its payload and the ids of the
                          \* tasks that are in_progress in the graph just then
    execCount,            \* per task: calls of worker.execute
    raised,               \* ids of tasks whose execution raised
    stuckIterations,      \* consecutive iterations of the stuck branch
    lastOutcome           \* outcome of the latest worker.execute call

VARIABLES
    execPath,             \* per task execution: the resourcePath it locks and writes
    epc,                  \* per task execution: its position in the write section
    attempts,             \* per execution: failed tries of the pending lockfile.lock call
    acquired,             \* per execution: its acquireLock call returned normally
    sectionError,         \* per execution: the write section is unwinding an error
    markers,              \* per lock marker: the execution whose claim it is, 0 if absent
    activeLocks,          \* LockManager.activeLocks: per resourcePath the execution
                          \* whose release function is stored, 0 if none
    execResult,           \* per execution: the TaskResult of WorkerAgent.execute
    acquireError,         \* per execution: the resource named by the error its
                          \* acquireLock call threw, <<>> if it threw none
    markerAge,            \* per lock marker: ms since its holder last touched it
    releaseLog            \* per execution: what its releaseLock call logged

lockVars == <<execPath, epc, attempts, acquired, sectionError, markers,
              activeLocks, execResult, acquireError, markerAge, releaseLog>>

VARIABLES
    dagTasks,             \* the task graph handed to validateDAG
    dagOutcome            \* what validateDAG did: returned, or the error thrown;
                          \* "none" before the call

dagVars == <<dagTasks, dagOutcome>>

VARIABLES
    graph,                \* a TaskGraph (its tasks array) used through its methods
    ready                 \* the array the last call returned if that call was
                          \* getNextTasks, empty otherwise

graphVars == <<graph, ready>>

runVars == <<plan, planOnly, tasks, pc, taskToRun, consecutiveFailures,
             activeAgents, emitted, runError, view, events, agentUpdate, statsUpdates, execCount, raised,
             stuckIterations, lastOutcome>>

\* ------------------------------------------------------------- utilities
RECURSIVE SortedSeq(_)
SortedSeq(S) ==
    IF S = {} THEN <<>>
    ELSE LET m == CHOOSE x \in S : \A y \in S : x <= y
         IN <<m>> \o SortedSeq(S \ {m})

Range(s) == { s[i] : i \in 1..Len(s) }

\* ------------------------------------------------------------- TaskGraph
\* a Task as created by addTask; result "undefined" until one is stored
NewTask(id, dependsOn) ==
    [id |-> id, dependsOn |-> dependsOn, status |-> "pending",
     retries |-> 0, result |-> "undefined"]

\* TaskGraph.addTask: id is nextTaskId++, which equals tasks.length + 1
\* because tasks are never removed
addTask(ts, dependsOn) == Append(ts, NewTask(Len(ts) + 1, dependsOn))

\* taskMap.has(id)
hasTask(ts, id) == id \in 1..Len(ts)

getAllTasks(ts) == ts

getPendingTasks(ts) == SelectSeq(ts, LAMBDA t : t.status = "pending")

depsNotFailed(ts, t) ==
    \A j \in 1..Len(t.dependsOn) :
        /\ hasTask(ts, t.dependsOn[j])
        /\ ts[t.dependsOn[j]].status # "failed"

depsSettled(ts, t) ==
    \A j \in 1..Len(t.dependsOn) :
        /\ hasTask(ts, t.dependsOn[j])
        /\ ts[t.dependsOn[j]].status \in {"completed", "failed"}

depsCompletedIgnoringUnknown(ts, t) ==
    \A j \in 1..Len(t.dependsOn) :
        hasTask(ts, t.dependsOn[j]) => ts[t.dependsOn[j]].status = "completed"

\* the dependency test of getNextTasks: depTask && depTask.status === 'completed'
depsCompleted(ts, t) ==
    \A j \in 1..Len(t.dependsOn) :
        /\ hasTask(ts, t.dependsOn[j])
        /\ ts[t.dependsOn[j]].status = "completed"

getNextTasksUnlessFailure(ts) ==
    IF \E i \in 1..Len(ts) : ts[i].status = "failed"
    THEN <<>>
    ELSE SelectSeq(ts, LAMBDA t : t.status = "pending" /\ depsCompleted(ts, t))

getNextTasksPendingOnly(ts) == SelectSeq(ts, LAMBDA t : t.status = "pending")

\* TaskGraph.getNextTasks
getNextTasks(ts) ==
    SelectSeq(ts, LAMBDA t : t.status = "pending" /\ depsCompleted(ts, t))

retriesAfterFailedOnly(t, status) ==
    IF status = "failed" THEN t.retries + 1 ELSE t.retries

\* a markStatus that clears the counter of a task that completes
retriesAfterClearedOnCompletion(t, status) ==
    IF status \in {"failed", "in_progress"} THEN t.retries + 1
    ELSE IF status = "completed" THEN 0 ELSE t.retries

\* lines 64-66 of markStatus
retriesAfter(t, status) ==
    IF status \in {"failed", "in_progress"} THEN t.retries + 1 ELSE t.retries

\* TaskGraph.markStatus; result "undefined" stands for an omitted argument
markStatus(ts, taskId, status, result) ==
    IF hasTask(ts, taskId)
    THEN [ts EXCEPT ![taskId] =
            [@ EXCEPT !.status = status,
                      !.result = IF result # "undefined" THEN result ELSE @,
                      !.retries = retriesAfter(ts[taskId], status)]]
    ELSE ts

resetTaskForRetryToInProgress(ts, taskId) ==
    IF hasTask(ts, taskId) /\ ts[taskId].status = "failed"
    THEN [ts EXCEPT ![taskId].status = "in_progress"]
    ELSE ts

resetTaskForRetryNoReset(ts, taskId) == ts

resetTaskForRetryAnyStatus(ts, taskId) ==
    IF hasTask(ts, taskId)
    THEN [ts EXCEPT ![taskId].status = "pending"]
    ELSE ts

\* TaskGraph.resetTaskForRetry
resetTaskForRetry(ts, taskId) ==
    IF hasTask(ts, taskId) /\ ts[taskId].status = "failed"
    THEN [ts EXCEPT ![taskId].status = "pending"]
    ELSE ts

\* the value markStatus returns: true when the task is found (line 69)
markStatusReturns(ts, taskId) == hasTask(ts, taskId)

\* the value resetTaskForRetry returns: true when the task is found and
\* failed (line 79), false otherwise (line 82)
resetTaskForRetryReturns(ts, taskId) ==
    IF hasTask(ts, taskId) /\ ts[taskId].status = "failed" THEN TRUE ELSE FALSE

\* ---------------------------------------------------- PlannerAgent.validateDAG
\* an edge builder that overlooks a task depending on itself
RECURSIVE BuildEdgesSkipSelf(_, _, _, _, _)
BuildEdgesSkipSelf(ts, i, j, inDeg, adj) ==
    IF i > Len(ts)
    THEN [ok |-> TRUE, inDegree |-> inDeg, adj |-> adj, task |-> 0, dep |-> 0]
    ELSE IF j > Len(ts[i].dependsOn)
    THEN BuildEdgesSkipSelf(ts, i + 1, 1, inDeg, adj)
    ELSE LET depId == ts[i].dependsOn[j]
         IN IF depId = ts[i].id
            THEN BuildEdgesSkipSelf(ts, i, j + 1, inDeg, adj)
            ELSE IF hasTask(ts, depId)
            THEN BuildEdgesSkipSelf(ts, i, j + 1,
                            [inDeg EXCEPT ![ts[i].id] = @ + 1],
                            [adj EXCEPT ![depId] = Append(@, ts[i].id)])
            ELSE [ok |-> FALSE, inDegree |-> inDeg, adj |-> adj,
                  task |-> ts[i].id, dep |-> depId]

\* lines 215-231: the two nested loops over tasks (i) and their dependsOn (j)
RECURSIVE BuildEdges(_, _, _, _, _)
BuildEdges(ts, i, j, inDeg, adj) ==
    IF i > Len(ts)
    THEN [ok |-> TRUE, inDegree |-> inDeg, adj |-> adj, task |-> 0, dep |-> 0]
    ELSE IF j > Len(ts[i].dependsOn)
    THEN BuildEdges(ts, i + 1, 1, inDeg, adj)
    ELSE LET depId == ts[i].dependsOn[j]
         IN IF hasTask(ts, depId)
            THEN BuildEdges(ts, i, j + 1,
                            [inDeg EXCEPT ![ts[i].id] = @ + 1],
                            [adj EXCEPT ![depId] = Append(@, ts[i].id)])
            ELSE [ok |-> FALSE, inDegree |-> inDeg, adj |-> adj,
                  task |-> ts[i].id, dep |-> depId]

\* a neighbour loop that visits each distinct neighbour once
RECURSIVE RelaxDistinctNeighbours(_, _, _, _)
RelaxDistinctNeighbours(nbrs, k, inDeg, queue) ==
    IF k > Len(nbrs)
    THEN [inDegree |-> inDeg, queue |-> queue]
    ELSE LET v == nbrs[k]
             currentDegree == inDeg[v] - 1
         IN IF \E h \in 1..(k - 1) : nbrs[h] = v
            THEN RelaxDistinctNeighbours(nbrs, k + 1, inDeg, queue)
            ELSE RelaxDistinctNeighbours(nbrs, k + 1,
                     [inDeg EXCEPT ![v] = currentDegree],
                     IF currentDegree = 0 THEN Append(queue, v) ELSE queue)

\* lines 246-253: the loop over the neighbours of u
RECURSIVE Relax(_, _, _, _)
Relax(nbrs, k, inDeg, queue) ==
    IF k > Len(nbrs)
    THEN [inDegree |-> inDeg, queue |-> queue]
    ELSE LET v == nbrs[k]
             currentDegree == inDeg[v] - 1
         IN Relax(nbrs, k + 1, [inDeg EXCEPT ![v] = currentDegree],
                  IF currentDegree = 0 THEN Append(queue, v) ELSE queue)

\* lines 240-254: while (queue.length > 0)
RECURSIVE Peel(_, _, _, _)
Peel(queue, inDeg, adj, count) ==
    IF queue = <<>>
    THEN [count |-> count, inDegree |-> inDeg]
    ELSE LET u == Head(queue)
             r == Relax(adj[u], 1, inDeg, Tail(queue))
         IN Peel(r.queue, r.inDegree, adj, count + 1)

cyclicNodeIdsWithDependencies(ts, inDeg) ==
    { i \in 1..Len(ts) : ts[i].dependsOn # <<>> }

\* lines 257-258: the ids of the tasks left with a positive in-degree
cyclicNodeIds(ts, inDeg) == { i \in 1..Len(ts) : inDeg[i] > 0 }

\* the outcome of validateDAG: ok, or the error it throws
validateDAG(ts) ==
    LET ids == 1..Len(ts)
        g == BuildEdges(ts, 1, 1, [i \in ids |-> 0], [i \in ids |-> <<>>])
    IN IF ~g.ok
       THEN [ok |-> FALSE, error |-> "invalid_dependency",
             nodes |-> {g.task}, dep |-> g.dep]
       ELSE LET queue == SelectSeq([i \in ids |-> i], LAMBDA i : g.inDegree[i] = 0)
                r == Peel(queue, g.inDegree, g.adj, 0)
            IN IF r.count # Len(ts)
               THEN [ok |-> FALSE, error |-> "cycle",
                     nodes |-> cyclicNodeIds(ts, r.inDegree), dep |-> 0]
               ELSE [ok |-> TRUE, error |-> "none", nodes |-> {}, dep |-> 0]

\* -------------------------------------------------- PlannerAgent.parsePlanJson
\* a plan item: id (0 when missing or no positive integer), descOk (description
\* is a non-blank string), depsIsArray, deps (the listed LLM ids)
itemValid(item) == item.id >= 1 /\ item.descOk /\ item.depsIsArray

\* lines 105-139: first pass, adds a task per valid item with a new LLM id
RECURSIVE AddItems(_, _, _, _)
AddItems(items, i, ts, llmIdToTaskId) ==
    IF i > Len(items)
    THEN [tasks |-> ts, llmIdToTaskId |-> llmIdToTaskId]
    ELSE IF ~itemValid(items[i]) \/ items[i].id \in DOMAIN llmIdToTaskId
    THEN AddItems(items, i + 1, ts, llmIdToTaskId)
    ELSE AddItems(items, i + 1, addTask(ts, <<>>),
                  llmIdToTaskId @@ (items[i].id :> Len(ts) + 1))

\* lines 150-172: map each LLM dependency id to the internal id, dropping
\* the ids that no task has
RECURSIVE internalDepIds(_, _)
internalDepIds(deps, llmIdToTaskId) ==
    IF deps = <<>> THEN <<>>
    ELSE (IF Head(deps) \in DOMAIN llmIdToTaskId
          THEN <<llmIdToTaskId[Head(deps)]>> ELSE <<>>)
         \o internalDepIds(Tail(deps), llmIdToTaskId)

\* lines 142-183: second pass, links the dependencies
RECURSIVE LinkItems(_, _, _, _)
LinkItems(items, i, ts, llmIdToTaskId) ==
    IF i > Len(items) THEN ts
    ELSE IF items[i].id \notin DOMAIN llmIdToTaskId \/ ~items[i].depsIsArray
    THEN LinkItems(items, i + 1, ts, llmIdToTaskId)
    ELSE LET ids == internalDepIds(items[i].deps, llmIdToTaskId)
         IN LinkItems(items, i + 1,
                      IF Len(ids) > 0
                      THEN [ts EXCEPT ![llmIdToTaskId[items[i].id]].dependsOn = ids]
                      ELSE ts,
                      llmIdToTaskId)

\* parsePlanJson from line 101 on: the graph, or the error thrown
parsePlanJson(items) ==
    LET added == AddItems(items, 1, <<>>, <<>>)
        linked == LinkItems(items, 1, added.tasks, added.llmIdToTaskId)
        v == validateDAG(linked)
    IN IF ~v.ok
       THEN [ok |-> FALSE, error |-> v.error, tasks |-> <<>>]
       ELSE IF Len(getAllTasks(linked)) = 0
       THEN [ok |-> FALSE, error |-> "no_tasks", tasks |-> <<>>]
       ELSE [ok |-> TRUE, error |-> "none", tasks |-> linked]

\* ------------------------------------------------------------ Orchestrator
loopConditionInProgressOnly(ts) ==
    \E i \in 1..Len(ts) : ts[i].status = "in_progress"

loopConditionWhileReady(ts) ==
    \/ getNextTasks(ts) # <<>>
    \/ \E i \in 1..Len(ts) : ts[i].status = "in_progress"

\* lines 386-390: the condition of the dispatch loop
loopCondition(ts) ==
    \E i \in 1..Len(ts) : ts[i].status \in {"pending", "in_progress"}

\* the ids of the tasks that are in_progress
inProgressIds(ts) == { i \in 1..Len(ts) : ts[i].status = "in_progress" }

emitStatsUpdateSettled(ts) ==
    [tasksTotal |-> Len(getAllTasks(ts)),
     tasksCompleted |->
         Len(SelectSeq(getAllTasks(ts),
                       LAMBDA t : t.status \in {"completed", "failed"})),
     tasksFailed |-> Len(SelectSeq(getAllTasks(ts), LAMBDA t : t.status = "failed"))]

\* emitStatsUpdate: the task counts of the payload, recomputed from this.tasks
\* (an orchestrator that has no graph yet is the empty sequence: the ?? 0)
emitStatsUpdate(ts) ==
    [tasksTotal |-> Len(getAllTasks(ts)),
     tasksCompleted |->
         Len(SelectSeq(getAllTasks(ts), LAMBDA t : t.status = "completed")),
     tasksFailed |-> Len(SelectSeq(getAllTasks(ts), LAMBDA t : t.status = "failed"))]

\* a statsUpdate event emitted while this.tasks is ts, before or after the
\* plan of the current run has become this.tasks
statsUpdate(ts, beforePlan) ==
    [payload |-> emitStatsUpdate(ts), graph |-> ts, beforePlan |-> beforePlan]

\* no agentStatusUpdate emitted yet
NoAgentUpdate == [sent |-> FALSE, payload |-> {}, inProgress |-> {}]

\* this.emit('agentStatusUpdate', { ...this.stats.activeAgents }) while the
\* graph is ts: the listeners run inside the emit call
agentStatusUpdate(agents, ts) ==
    [sent |-> TRUE, payload |-> agents, inProgress |-> inProgressIds(ts)]

inProgressCount(ts) == Len(SelectSeq(ts, LAMBDA t : t.status = "in_progress"))

pendingCount(ts) == Len(getPendingTasks(ts))

stuckLimitReached(cf) == cf >= MAX_CONSECUTIVE_FAILURES

\* a limit that one failure result and one empty ready set already exceed
stuckLimitExceededByOneWait(cf) == cf > 1

\* line 408: consecutiveFailures > MAX_CONSECUTIVE_FAILURES
stuckLimitExceeded(cf) == cf > MAX_CONSECUTIVE_FAILURES

\* a scheduler that leaves every failed task failed
retryNever(currentRetries) == FALSE

retryAlways(currentRetries) == TRUE

\* line 469: currentRetries <= this.maxRetries
retryAllowed(currentRetries) == currentRetries <= maxRetries

terminalEventFailedTasks(error, ts) ==
    IF error = "none" /\ \A i \in 1..Len(ts) : ts[i].status # "failed"
    THEN "allTasksDone" ELSE "orchestrationFailed"

terminalEventDoneWhenStuck(error, ts) ==
    IF error \in {"none", "stuck"} THEN "allTasksDone" ELSE "orchestrationFailed"

\* lines 238-246: allTasksDone after executeTasks returned, orchestrationFailed
\* in the catch block
terminalEvent(error, ts) ==
    IF error = "none" THEN "allTasksDone" ELSE "orchestrationFailed"

criticalErrorSwallowed == FALSE

\* lines 509-511: the catch block of executeTasks rethrows
criticalErrorRethrown == TRUE

\* the plans the LLM may return: up to MaxTasks well-formed items with the ids
\* 1..n in order, each depending on any set of the plan's ids
PlanOf(n, f) ==
    [i \in 1..n |-> [id |-> i, descOk |-> TRUE, depsIsArray |-> TRUE,
                     deps |-> SortedSeq(f[i])]]

IsPlan(p) ==
    \E n \in 1..MaxTasks : \E f \in [1..n -> SUBSET (1..n)] : p = PlanOf(n, f)

\* items that depend on earlier items only (back), those of unk listing also
\* the id n + 1 that no item has
ForwardPlan(n, back, unk) ==
    PlanOf(n, [i \in 1..n |-> { j \in back[i] : j < i }
                              \cup (IF i \in unk THEN {n + 1} ELSE {})])

\* plans in which some item lists a dependency id that no item has
IsPlanWithUnknownDeps(p) ==
    \E n \in 1..MaxTasks : \E back \in [1..n -> SUBSET (1..(n - 1))] :
        \E unk \in (SUBSET (1..n)) \ {{}} : p = ForwardPlan(n, back, unk)

\* the ways an item fails the checks of parsePlanJson
ItemFlaws == {"missing_id", "duplicate_id", "blank_description", "deps_not_array"}

\* item k of p with the flaw; a duplicate id is the id of item j
Spoil(p, k, flaw, j) ==
    [p EXCEPT ![k] =
        CASE flaw = "missing_id" -> [@ EXCEPT !.id = 0]
          [] flaw = "duplicate_id" -> [@ EXCEPT !.id = p[j].id]
          [] flaw = "blank_description" -> [@ EXCEPT !.descOk = FALSE]
          [] flaw = "deps_not_array" ->
                 [@ EXCEPT !.depsIsArray = FALSE, !.deps = <<>>]]

\* plans with one invalid item among otherwise valid ones
IsPlanWithInvalidItem(p) ==
    \E n \in 1..MaxTasks : \E back \in [1..n -> SUBSET (1..(n - 1))] :
        \E k \in 1..n : \E flaw \in ItemFlaws : \E j \in 1..n :
            /\ IF flaw = "duplicate_id" THEN j # k ELSE j = k
            /\ p = Spoil(ForwardPlan(n, back, {}), k, flaw, j)

TaskIds == 1..MaxTasks

\* the fields of the orchestrator and of the run's observers when
\* startProcessingObjective awaits planTasks for the first time
RunStart ==
    /\ planOnly \in BOOLEAN
    /\ tasks = <<>>
    /\ pc = "planning"
    /\ taskToRun = 0
    /\ consecutiveFailures = 0
    /\ activeAgents = {}
    /\ emitted = {}
    /\ runError = "none"
    /\ view = <<>>
    /\ events = <<>>
    /\ agentUpdate = NoAgentUpdate
    /\ statsUpdates = {}
    /\ execCount = [i \in TaskIds |-> 0]
    /\ raised = {}
    /\ stuckIterations = 0
    /\ lastOutcome = "none"

RunInit ==
    /\ \/ IsPlan(plan)
       \/ IsPlanWithUnknownDeps(plan)
       \/ IsPlanWithInvalidItem(plan)
    /\ RunStart

\* startProcessingObjective lines 223-246: planTasks resolves or rejects
PlanTasks ==
    /\ pc = "planning"
    /\ LET r == parsePlanJson(plan)
       IN IF r.ok
          THEN /\ tasks' = r.tasks
               /\ view' = [i \in 1..Len(r.tasks) |-> r.tasks[i].status]
               /\ events' = [i \in 1..Len(r.tasks) |-> <<>>]
               /\ pc' = IF planOnly THEN "planned" ELSE "loop"
               /\ statsUpdates' = { statsUpdate(tasks, TRUE),
                                    statsUpdate(r.tasks, FALSE) }
               /\ UNCHANGED <<emitted, runError>>
          ELSE /\ pc' = "aborted"
               /\ runError' = r.error
               /\ emitted' = emitted \cup {terminalEvent(r.error, tasks)}
               /\ statsUpdates' = { statsUpdate(tasks, TRUE) }
               /\ UNCHANGED <<tasks, view, events>>
    /\ UNCHANGED <<dagVars, graphVars, lockVars, plan, planOnly, agentUpdate, taskToRun, consecutiveFailures, activeAgents,
                   execCount, raised, stuckIterations, lastOutcome>>

\* the loop condition is false: executeTasks returns, allTasksDone is emitted
LoopExit ==
    /\ pc = "loop"
    /\ ~loopCondition(tasks)
    /\ pc' = "done"
    /\ emitted' = emitted \cup {terminalEvent("none", tasks)}
    /\ statsUpdates' = { statsUpdate(tasks, FALSE) }
    /\ UNCHANGED <<dagVars, graphVars, lockVars, plan, planOnly, tasks, taskToRun, consecutiveFailures,
                   activeAgents, runError, view, events, agentUpdate, execCount, raised,
                   stuckIterations, lastOutcome>>

lastReady(availableTasks) == availableTasks[Len(availableTasks)]

\* line 435: const taskToRun = availableTasks[0]
firstReady(availableTasks) == availableTasks[1]

\* lines 434-450: the first ready task is marked in_progress and handed to
\* worker.execute
Dispatch ==
    /\ pc = "loop"
    /\ loopCondition(tasks)
    /\ getNextTasks(tasks) # <<>>
    /\ LET id == firstReady(getNextTasks(tasks)).id
       IN /\ consecutiveFailures' = 0
          /\ taskToRun' = id
          /\ activeAgents' = activeAgents \cup {id}
          /\ tasks' = markStatus(tasks, id, "in_progress", "undefined")
          /\ view' = [view EXCEPT ![id] = "in_progress"]
          /\ events' = [events EXCEPT ![id] = Append(@, "in_progress")]
          /\ agentUpdate' = agentStatusUpdate(activeAgents \cup {id}, tasks)
          /\ statsUpdates' = { statsUpdate(tasks', FALSE) }
          /\ execCount' = [execCount EXCEPT ![id] = @ + 1]
    /\ pc' = "executing"
    /\ stuckIterations' = 0
    /\ UNCHANGED <<dagVars, graphVars, lockVars, plan, planOnly, emitted, runError, raised, lastOutcome>>

\* lines 393-432: the ready set is empty
EmptyReadySet ==
    /\ pc = "loop"
    /\ loopCondition(tasks)
    /\ getNextTasks(tasks) = <<>>
    /\ IF inProgressCount(tasks) = 0 /\ pendingCount(tasks) > 0
       THEN /\ consecutiveFailures' = consecutiveFailures + 1
            /\ stuckIterations' = stuckIterations + 1
            /\ IF stuckLimitExceeded(consecutiveFailures + 1)
               THEN /\ pc' = "aborted"
                    /\ runError' = "stuck"
                    /\ emitted' = emitted \cup {terminalEvent("stuck", tasks)}
                    /\ statsUpdates' = { statsUpdate(tasks, FALSE) }
               ELSE /\ pc' = "stuckWait"
                    /\ UNCHANGED <<runError, emitted, statsUpdates>>
       ELSE IF inProgressCount(tasks) > 0
       THEN \* wait 1000 ms and continue
            /\ pc' = "loop"
            /\ UNCHANGED <<consecutiveFailures, stuckIterations, runError, emitted,
                           statsUpdates>>
       ELSE \* break
            /\ pc' = "done"
            /\ emitted' = emitted \cup {terminalEvent("none", tasks)}
            /\ statsUpdates' = { statsUpdate(tasks, FALSE) }
            /\ UNCHANGED <<consecutiveFailures, stuckIterations, runError>>
    /\ UNCHANGED <<dagVars, graphVars, lockVars, plan, planOnly, tasks, taskToRun, activeAgents, view,
                   events, agentUpdate, execCount, raised, lastOutcome>>

\* lines 419-423: the backoff timer of the stuck branch fires
StuckWaitElapsed ==
    /\ pc = "stuckWait"
    /\ pc' = "loop"
    /\ UNCHANGED <<dagVars, graphVars, lockVars, plan, planOnly, tasks, taskToRun, consecutiveFailures,
                   activeAgents, emitted, runError, view, events, agentUpdate, statsUpdates, execCount,
                   raised, stuckIterations, lastOutcome>>

newStatusCompleted(success) == "completed"

\* a failure result that leaves the task in_progress
newStatusRunningOnFailure(success) == IF success THEN "completed" ELSE "in_progress"

\* line 451: result.success ? 'completed' : 'failed'
newStatus(success) == IF success THEN "completed" ELSE "failed"

\* lines 450-464 with result.success
TaskSucceeded ==
    /\ pc = "executing"
    /\ tasks' = markStatus(tasks, taskToRun, newStatus(TRUE), "success")
    /\ activeAgents' = activeAgents \ {taskToRun}
    /\ view' = [view EXCEPT ![taskToRun] = newStatus(TRUE)]
    /\ events' = [events EXCEPT ![taskToRun] = Append(@, newStatus(TRUE))]
    /\ agentUpdate' = agentStatusUpdate(activeAgents \ {taskToRun}, tasks')
    /\ statsUpdates' = { statsUpdate(tasks', FALSE) }
    /\ lastOutcome' = "success"
    /\ pc' = "loop"
    /\ UNCHANGED <<dagVars, graphVars, lockVars, plan, planOnly, taskToRun, consecutiveFailures, emitted,
                   runError, execCount, raised, stuckIterations>>

\* lines 450-464 with !result.success
TaskFailed ==
    /\ pc = "executing"
    /\ tasks' = markStatus(tasks, taskToRun, newStatus(FALSE), "failure")
    /\ activeAgents' = activeAgents \ {taskToRun}
    /\ view' = [view EXCEPT ![taskToRun] = newStatus(FALSE)]
    /\ events' = [events EXCEPT ![taskToRun] = Append(@, newStatus(FALSE))]
    /\ agentUpdate' = agentStatusUpdate(activeAgents \ {taskToRun}, tasks')
    /\ statsUpdates' = { statsUpdate(tasks', FALSE) }
    /\ lastOutcome' = "failure"
    /\ pc' = "retry"
    /\ UNCHANGED <<dagVars, graphVars, lockVars, plan, planOnly, taskToRun, consecutiveFailures, emitted,
                   runError, execCount, raised, stuckIterations>>

\* lines 466-491: retry or leave the task failed
RetryDecision ==
    /\ pc = "retry"
    /\ LET currentRetries ==
               IF hasTask(tasks, taskToRun) THEN tasks[taskToRun].retries ELSE 0
       IN IF retryAllowed(currentRetries)
          THEN /\ tasks' = resetTaskForRetry(tasks, taskToRun)
               /\ view' = [view EXCEPT ![taskToRun] = "pending"]
               /\ events' = [events EXCEPT ![taskToRun] = Append(@, "pending")]
          ELSE UNCHANGED <<tasks, view, events>>
    /\ consecutiveFailures' = consecutiveFailures + 1
    /\ pc' = "loop"
    /\ UNCHANGED <<dagVars, graphVars, lockVars, plan, planOnly, agentUpdate, statsUpdates, taskToRun, activeAgents, emitted, runError,
                   execCount, raised, stuckIterations, lastOutcome>>

\* lines 492-512 and 243-246: the awaited worker.execute call rejects (the
\* executor is an external capability that may raise)
TaskRaised ==
    /\ pc = "executing"
    /\ tasks' = markStatus(tasks, taskToRun, "failed", "error")
    /\ activeAgents' = activeAgents \ {taskToRun}
    /\ view' = [view EXCEPT ![taskToRun] = "failed"]
    /\ events' = [events EXCEPT ![taskToRun] = Append(@, "failed")]
    /\ agentUpdate' = agentStatusUpdate(activeAgents \ {taskToRun}, tasks')
    /\ statsUpdates' = { statsUpdate(tasks', FALSE) }
    /\ lastOutcome' = "raise"
    /\ raised' = raised \cup {taskToRun}
    /\ IF criticalErrorRethrown
       THEN /\ pc' = "aborted"
            /\ runError' = "critical"
            /\ emitted' = emitted \cup {terminalEvent("critical", tasks')}
       ELSE /\ pc' = "loop"
            /\ UNCHANGED <<runError, emitted>>
    /\ UNCHANGED <<dagVars, graphVars, lockVars, plan, planOnly, taskToRun, consecutiveFailures, execCount,
                   stuckIterations>>

\* ------------------------------------------------------------- LockManager
\* resource paths are strings of these characters
SafeChars == {"a", "b", ".", "_"}

\* the segments of a path between "/" separators
RECURSIVE Split(_, _)
Split(p, cur) ==
    IF p = <<>> THEN <<cur>>
    ELSE IF Head(p) = "/" THEN <<cur>> \o Split(Tail(p), <<>>)
    ELSE Split(Tail(p), Append(cur, Head(p)))

\* path.resolve against the workspace root, then path.relative to it: empty
\* and "." segments disappear, ".." removes the segment before it
RECURSIVE Normalize(_, _)
Normalize(segs, out) ==
    IF segs = <<>> THEN out
    ELSE LET g == Head(segs)
         IN IF g = <<>> \/ g = <<".">> THEN Normalize(Tail(segs), out)
            ELSE IF g = <<".", ".">>
            THEN Normalize(Tail(segs),
                           IF out = <<>> THEN out ELSE SubSeq(out, 1, Len(out) - 1))
            ELSE Normalize(Tail(segs), Append(out, g))

RECURSIVE Join(_)
Join(segs) ==
    IF segs = <<>> THEN <<>>
    ELSE IF Len(segs) = 1 THEN segs[1]
    ELSE segs[1] \o <<"/">> \o Join(Tail(segs))

relativePath(resourcePath) == Join(Normalize(Split(resourcePath, <<>>), <<>>))

\* LockManager.getLockfilePath: every character outside [a-zA-Z0-9_.-] of
\* the relative path becomes "_"; the ".lock" suffix and the lock directory
\* are the same for all paths and left out
getLockfilePath(resourcePath) ==
    LET rel == relativePath(resourcePath)
    IN [i \in 1..Len(rel) |-> IF rel[i] \in SafeChars THEN rel[i] ELSE "_"]

\* the resource paths the executions use: "a" and "./a" name one file, "a/b"
\* and "a_b" are two more files
PathList ==
    << <<"a">>, <<".", "/", "a">>, <<"a", "/", "b">>, <<"a", "_", "b">> >>

Paths == Range(PathList)

Markers == { getLockfilePath(p) : p \in Paths }

Execs == 1..NumExecs

\* lockfile.lock(lockfilePath, ...) can claim the marker: none exists
lockfileFree(ms, m) == ms[m] = 0

\* the holder of a marker that is a process that died while holding it
CrashedHolder == NumExecs + 1

isLockStaleNever(age) == FALSE

\* the stale option: a marker its holder has not touched for more than StaleMs
\* counts as abandoned
isLockStale(age) == age > StaleMs

\* lockfile.lock(lockfilePath, ...) can claim the marker
lockfileClaimable(ms, ages, m) == lockfileFree(ms, m) \/ isLockStale(ages[m])

retriesExhaustedLate(n) == n > LockRetries + 2

\* the lock call gives up after the first try and LockRetries retries
retriesExhausted(n) == n > LockRetries

activeLocksKept(al, resourcePath) == al

\* releaseLock lines 81 and 90: this.activeLocks.delete(resourcePath)
activeLocksDelete(al, resourcePath) == [al EXCEPT ![resourcePath] = 0]

\* the executions are interchangeable: they are numbered in the order of
\* their paths in PathList
LockStart ==
    /\ \E idx \in [Execs -> 1..Len(PathList)] :
          /\ \A c, d \in Execs : c < d => idx[c] <= idx[d]
          /\ execPath = [c \in Execs |-> PathList[idx[c]]]
    /\ epc = [c \in Execs |-> "start"]
    /\ attempts = [c \in Execs |-> 0]
    /\ acquired = [c \in Execs |-> FALSE]
    /\ sectionError = [c \in Execs |-> FALSE]
    /\ markers = [m \in Markers |-> 0]
    /\ activeLocks = [p \in Paths |-> 0]
    /\ execResult = [c \in Execs |-> "none"]
    /\ releaseLog = [c \in Execs |-> "none"]
    /\ acquireError = [c \in Execs |-> <<>>]
    /\ markerAge = [m \in Markers |-> 0]

\* no task execution is under way
LockIdle ==
    /\ execPath = [c \in Execs |-> <<"a">>]
    /\ epc = [c \in Execs |-> "idle"]
    /\ attempts = [c \in Execs |-> 0]
    /\ acquired = [c \in Execs |-> FALSE]
    /\ sectionError = [c \in Execs |-> FALSE]
    /\ markers = [m \in Markers |-> 0]
    /\ activeLocks = [p \in Paths |-> 0]
    /\ execResult = [c \in Execs |-> "none"]
    /\ releaseLog = [c \in Execs |-> "none"]
    /\ acquireError = [c \in Execs |-> <<>>]
    /\ markerAge = [m \in Markers |-> 0]

\* no objective is being processed
RunIdle ==
    /\ plan = <<>>
    /\ planOnly = FALSE
    /\ tasks = <<>>
    /\ pc = "idle"
    /\ taskToRun = 0
    /\ consecutiveFailures = 0
    /\ activeAgents = {}
    /\ emitted = {}
    /\ runError = "none"
    /\ view = <<>>
    /\ events = <<>>
    /\ agentUpdate = NoAgentUpdate
    /\ statsUpdates = {}
    /\ execCount = [i \in TaskIds |-> 0]
    /\ raised = {}
    /\ stuckIterations = 0
    /\ lastOutcome = "none"

\* acquireLock lines 58-64: lockfile.lock claims the marker (a stale one is
\* removed first), the release function is stored under the resourcePath
LockAcquired(c) ==
    /\ epc[c] \in {"start", "acquiring"}
    /\ lockfileClaimable(markers, markerAge, getLockfilePath(execPath[c]))
    /\ markers' = [markers EXCEPT ![getLockfilePath(execPath[c])] = c]
    /\ markerAge' = [markerAge EXCEPT ![getLockfilePath(execPath[c])] = 0]
    /\ activeLocks' = [activeLocks EXCEPT ![execPath[c]] = c]
    /\ acquired' = [acquired EXCEPT ![c] = TRUE]
    /\ epc' = [epc EXCEPT ![c] = "writing"]
    /\ UNCHANGED <<execPath, attempts, sectionError, execResult, releaseLog, acquireError,
                   runVars, dagVars, graphVars>>

\* acquireLock lines 58-72: a try of lockfile.lock finds the marker taken;
\* it is retried after a backoff, or the call throws when the retries are
\* used up: acquireLock throws the error naming resourcePath and the finally
\* block of the write section runs
LockBusy(c) ==
    /\ epc[c] \in {"start", "acquiring"}
    /\ ~lockfileClaimable(markers, markerAge, getLockfilePath(execPath[c]))
    /\ attempts' = [attempts EXCEPT ![c] = @ + 1]
    /\ IF retriesExhausted(attempts[c] + 1)
       THEN /\ epc' = [epc EXCEPT ![c] = "finally"]
            /\ sectionError' = [sectionError EXCEPT ![c] = TRUE]
            /\ acquireError' = [acquireError EXCEPT ![c] = execPath[c]]
       ELSE /\ epc' = [epc EXCEPT ![c] = "acquiring"]
            /\ UNCHANGED <<sectionError, acquireError>>
    /\ UNCHANGED <<execPath, acquired, markers, activeLocks, execResult, releaseLog, markerAge,
                   runVars, dagVars, graphVars>>

\* handleFileWriteTask lines 219-226: fileTool.writeFile resolves
WriteDone(c) ==
    /\ epc[c] = "writing"
    /\ epc' = [epc EXCEPT ![c] = "finally"]
    /\ UNCHANGED <<execPath, attempts, acquired, sectionError, markers,
                   activeLocks, execResult, releaseLog, acquireError, markerAge, runVars, dagVars, graphVars>>

\* handleFileWriteTask lines 219-226: fileTool.writeFile rejects
WriteFailed(c) ==
    /\ epc[c] = "writing"
    /\ epc' = [epc EXCEPT ![c] = "finally"]
    /\ sectionError' = [sectionError EXCEPT ![c] = TRUE]
    /\ UNCHANGED <<execPath, attempts, acquired, markers, activeLocks,
                   execResult, releaseLog, acquireError, markerAge, runVars, dagVars, graphVars>>

\* releaseLock with no local record throwing instead of warning.
releaseLockStrict(holder, markerHolder) ==
    IF holder # 0 /\ markerHolder = holder THEN "released" ELSE "failed"

\* What releaseLock(resourcePath) does, by the record it finds in activeLocks
\* (holder, 0 for none) and the holder of the lock marker: "released" when
\* release() succeeds, "failed" when release() throws (the lock is no longer
\* held by the record's owner) and releaseLock rethrows, "warned" when there
\* is no record: a warning is logged and the call returns normally.
releaseLock(holder, markerHolder) ==
    IF holder # 0
    THEN IF markerHolder = holder THEN "released" ELSE "failed"
    ELSE "warned"

\* the catch block of execute rethrowing instead of returning a TaskResult
taskResultRethrows(sectionThrew, releaseThrew) ==
    IF sectionThrew \/ releaseThrew THEN "thrown" ELSE "success"

\* WorkerAgent.execute around a write section: an error of acquireLock or
\* writeFile leaves the try block, an error of releaseLock in the finally
\* block replaces it; either one is caught by execute and turned into
\* { success: false }, and only a section that ran through returns
\* { success: true }
taskResult(sectionThrew, releaseThrew) ==
    IF sectionThrew \/ releaseThrew THEN "failure" ELSE "success"

\* handleFileWriteTask lines 227-237 with LockManager.releaseLock, and the
\* catch of WorkerAgent.execute: the stored release function, if any, removes
\* the marker of the claim it belongs to and the entry is deleted; a release
\* function whose marker is gone rejects
ReleaseAndReturn(c) ==
    /\ epc[c] = "finally"
    /\ LET p == execPath[c]
           holder == activeLocks[p]
           m == getLockfilePath(p)
           outcome == releaseLock(holder, markers[m])
           releaseThrows == outcome = "failed"
       IN /\ markers' = IF outcome = "released"
                         THEN [markers EXCEPT ![m] = 0] ELSE markers
          /\ markerAge' = IF outcome = "released"
                           THEN [markerAge EXCEPT ![m] = 0] ELSE markerAge
          /\ activeLocks' = activeLocksDelete(activeLocks, p)
          /\ releaseLog' = [releaseLog EXCEPT ![c] = outcome]
          /\ execResult' = [execResult EXCEPT ![c] =
                taskResult(sectionError[c], releaseThrows)]
    /\ epc' = [epc EXCEPT ![c] = "returned"]
    /\ UNCHANGED <<execPath, attempts, acquired, sectionError, acquireError,
                   runVars, dagVars, graphVars>>

\* time passes: the marker of a dead holder ages (a live holder keeps
\* touching its marker); ages beyond StaleMs are not told apart
TimePasses ==
    /\ \E m \in Markers : markers[m] = CrashedHolder /\ markerAge[m] <= StaleMs
    /\ \E step \in {StaleMs \div 2, StaleMs \div 2 + 1} :
          markerAge' = [m \in Markers |->
              IF markers[m] = CrashedHolder
              THEN IF markerAge[m] + step > StaleMs
                   THEN StaleMs + 1 ELSE markerAge[m] + step
              ELSE markerAge[m]]
    /\ UNCHANGED <<execPath, epc, attempts, acquired, sectionError, markers,
                   activeLocks, execResult, releaseLog, acquireError, runVars, dagVars, graphVars>>

vars == <<runVars, lockVars, dagVars, graphVars>>

\* validateDAG has not been called
NotCalled == [ok |-> FALSE, error |-> "not_called", nodes |-> {}, dep |-> 0]

\* no graph is being validated
DagIdle ==
    /\ dagTasks = <<>>
    /\ dagOutcome = NotCalled

GraphIdle == graph = <<>> /\ ready = <<>>

Init == RunInit /\ LockIdle /\ DagIdle /\ GraphIdle

Next ==
    \/ PlanTasks
    \/ LoopExit
    \/ Dispatch
    \/ EmptyReadySet
    \/ StuckWaitElapsed
    \/ TaskSucceeded
    \/ TaskFailed
    \/ RetryDecision
    \/ TaskRaised

Spec == Init /\ [][Next]_vars

\* ---------------------------------------------------------------- StatsSpec
\* runs of one Orchestrator instance, one after the other, with the triggers
\* of statsUpdate that come from outside the dispatch loop

\* lines 221 and 174-193: the interval timer of the run calls emitStatsUpdate;
\* it fires only while the run awaits the planner, the executor or the
\* back-off of the stuck branch
StatsTimer ==
    /\ pc \in {"planning", "executing", "stuckWait"}
    /\ statsUpdates' = { statsUpdate(tasks, pc = "planning") }
    /\ UNCHANGED <<dagVars, graphVars, lockVars, plan, planOnly, tasks, pc, taskToRun,
                   consecutiveFailures, activeAgents, emitted, runError, view,
                   events, agentUpdate, execCount, raised, stuckIterations,
                   lastOutcome>>

\* lines 165-172: the executor reports an LLM call (the callback handed to
\* WorkerAgent, line 378) while the loop awaits worker.execute
LlmCall ==
    /\ pc = "executing"
    /\ statsUpdates' = { statsUpdate(tasks, FALSE) }
    /\ UNCHANGED <<dagVars, graphVars, lockVars, plan, planOnly, tasks, pc, taskToRun,
                   consecutiveFailures, activeAgents, emitted, runError, view,
                   events, agentUpdate, execCount, raised, stuckIterations,
                   lastOutcome>>

\* dashboard.ts lines 172-187 and startProcessingObjective lines 195-221: a
\* finished run is followed by another run of the same instance (here: the
\* objective is submitted again and planned alike). The stats object is
\* replaced; this.tasks keeps the graph of the finished run until planTasks
\* has resolved.
StartNextRun ==
    /\ pc \in {"done", "aborted", "planned"}
    /\ pc' = "planning"
    /\ taskToRun' = 0
    /\ consecutiveFailures' = 0
    /\ activeAgents' = {}
    /\ emitted' = {}
    /\ runError' = "none"
    /\ view' = <<>>
    /\ events' = <<>>
    /\ agentUpdate' = NoAgentUpdate
    /\ statsUpdates' = {}
    /\ execCount' = [i \in TaskIds |-> 0]
    /\ raised' = {}
    /\ stuckIterations' = 0
    /\ lastOutcome' = "none"
    /\ UNCHANGED <<dagVars, graphVars, lockVars, plan, planOnly, tasks>>

StatsNext ==
    \/ Next
    \/ StatsTimer
    \/ LlmCall
    \/ StartNextRun

\* the first run of the instance, on a plan of well-formed items (cyclic
\* plans included)
StatsInit == IsPlan(plan) /\ RunStart /\ LockIdle /\ DagIdle /\ GraphIdle

StatsSpec == StatsInit /\ [][StatsNext]_vars

LockInit == LockStart /\ RunIdle /\ DagIdle /\ GraphIdle

LockNext ==
    \E c \in Execs :
        \/ LockAcquired(c)
        \/ LockBusy(c)
        \/ WriteDone(c)
        \/ WriteFailed(c)
        \/ ReleaseAndReturn(c)

LockSpec == LockInit /\ [][LockNext]_vars

\* executions on the file "a" whose marker a process claimed before it died
StaleInit ==
    /\ execPath = [c \in Execs |-> PathList[1]]
    /\ epc = [c \in Execs |-> "start"]
    /\ attempts = [c \in Execs |-> 0]
    /\ acquired = [c \in Execs |-> FALSE]
    /\ sectionError = [c \in Execs |-> FALSE]
    /\ markers = [m \in Markers |->
                     IF m = getLockfilePath(PathList[1]) THEN CrashedHolder ELSE 0]
    /\ activeLocks = [p \in Paths |-> 0]
    /\ execResult = [c \in Execs |-> "none"]
    /\ releaseLog = [c \in Execs |-> "none"]
    /\ acquireError = [c \in Execs |-> <<>>]
    /\ markerAge = [m \in Markers |-> 0]
    /\ RunIdle
    /\ DagIdle
    /\ GraphIdle

StaleNext == LockNext \/ TimePasses

StaleSpec == StaleInit /\ [][StaleNext]_vars

\* the marker of an execution inside its write section disappears (the lock
\* directory is shared with every process of the workspace): the stored
\* release function will reject. The executions are interchangeable; the
\* fault hits the first one
MarkerLost ==
    \E c \in {1} :
        /\ epc[c] = "writing"
        /\ markers[getLockfilePath(execPath[c])] = c
        /\ markers' = [markers EXCEPT ![getLockfilePath(execPath[c])] = 0]
        /\ UNCHANGED <<execPath, epc, attempts, acquired, sectionError, activeLocks,
                       execResult, releaseLog, acquireError, markerAge,
                       runVars, dagVars, graphVars>>

\* executions on the file "a"
FaultInit ==
    /\ LockStart
    /\ \A c \in Execs : execPath[c] = PathList[1]
    /\ RunIdle
    /\ DagIdle
    /\ GraphIdle

FaultNext == LockNext \/ MarkerLost

FaultSpec == FaultInit /\ [][FaultNext]_vars

\* ------------------------------------- validateDAG on arbitrary task graphs
\* a dependsOn entry <<i, d>>: task i lists the id d; d = n + 1 is an id that
\* no task of a graph of n tasks has
DepEntries(n) == (1..n) \X (1..(n + 1))

\* n tasks as addTask creates them
EmptyGraph(n) == [i \in 1..n |-> NewTask(i, <<>>)]

\* the graph after the entries es were pushed, in order, on the dependsOn
\* lists of their tasks
RECURSIVE GraphOf(_, _)
GraphOf(ts, es) ==
    IF es = <<>> THEN ts
    ELSE GraphOf([ts EXCEPT ![Head(es)[1]].dependsOn = Append(@, Head(es)[2])],
                 Tail(es))

\* the task graphs of up to MaxTasks tasks and up to MaxDepEntries dependsOn
\* entries: duplicate entries, self-dependencies, cycles and ids of no task
\* included
IsGraph(g) ==
    \E n \in 0..MaxTasks : \E k \in 0..MaxDepEntries :
        \E es \in [1..k -> DepEntries(n)] : g = GraphOf(EmptyGraph(n), es)

DagInit ==
    /\ IsGraph(dagTasks)
    /\ dagOutcome = NotCalled
    /\ RunIdle
    /\ LockIdle
    /\ GraphIdle

\* this.validateDAG(taskGraph) returns or throws
Validate ==
    /\ dagOutcome = NotCalled
    /\ dagOutcome' = validateDAG(dagTasks)
    /\ UNCHANGED <<dagTasks, runVars, lockVars, graphVars>>

DagNext == Validate

DagSpec == DagInit /\ [][DagNext]_vars

\* ---------------------------------------------------------------- GraphSpec
\* a TaskGraph driven through its public methods in any order

\* dependsOn arguments of addTask: none, the first task (for the first task
\* itself), the first task and an id of no task (ids start at 1)
DepChoices == { <<>>, <<1>>, <<1, 0>> }

Statuses == {"pending", "in_progress", "completed", "failed"}

RECURSIVE TotalRetries(_)
TotalRetries(ts) ==
    IF ts = <<>> THEN 0 ELSE Head(ts).retries + TotalRetries(Tail(ts))

\* new TaskGraph()
GraphInit ==
    /\ graph = <<>>
    /\ ready = <<>>
    /\ RunIdle
    /\ LockIdle
    /\ DagIdle

GraphAddTask ==
    /\ Len(graph) < MaxApiTasks
    /\ \E dependsOn \in DepChoices : graph' = addTask(graph, dependsOn)
    /\ ready' = <<>>
    /\ UNCHANGED <<runVars, lockVars, dagVars>>

GraphMarkStatus ==
    /\ \E taskId \in 1..Len(graph) : \E status \in Statuses :
          \E result \in {"undefined", "r"} :
            /\ status \in {"failed", "in_progress"} => TotalRetries(graph) < MaxMarks
            /\ graph' = markStatus(graph, taskId, status, result)
    /\ ready' = <<>>
    /\ UNCHANGED <<runVars, lockVars, dagVars>>

GraphResetTaskForRetry ==
    /\ \E taskId \in 1..Len(graph) : graph' = resetTaskForRetry(graph, taskId)
    /\ ready' = <<>>
    /\ UNCHANGED <<runVars, lockVars, dagVars>>

\* getNextTasks filters this.tasks into a new array and writes nothing
GraphGetNextTasks ==
    /\ ready' = getNextTasks(graph)
    /\ UNCHANGED <<graph, runVars, lockVars, dagVars>>

GraphNext ==
    \/ GraphAddTask
    \/ GraphMarkStatus
    \/ GraphResetTaskForRetry
    \/ GraphGetNextTasks

GraphSpec == GraphInit /\ [][GraphNext]_vars

TypeOK ==
    /\ pc \in {"idle", "planning", "planned", "loop", "executing", "retry", "stuckWait",
                "done", "aborted"}
    /\ consecutiveFailures \in 0..(MAX_CONSECUTIVE_FAILURES + 1)

\* ------------------------------------------------------------ definitions
\* used by the properties
TaskIndex == 1..Len(tasks)

DependsOn(t2, t1) == t1 \in Range(tasks[t2].dependsOn)

RunEnded == pc \in {"done", "aborted"}

PlanningErrors == {"cycle", "invalid_dependency", "no_tasks"}

\* the dependency relation of a plan, over the ids its items carry
PlanEdges(p) ==
    UNION { { <<p[i].id, d>> : d \in Range(p[i].deps) } : i \in 1..Len(p) }

PlanIds(p) == { p[i].id : i \in 1..Len(p) }

RECURSIVE ReachFrom(_, _)
ReachFrom(edges, S) ==
    LET N == S \cup { e[2] : e \in { x \in edges : x[1] \in S } }
    IN IF N = S THEN S ELSE ReachFrom(edges, N)

PlanHasCycle(p) ==
    \E e \in PlanEdges(p) : e[1] \in ReachFrom(PlanEdges(p), {e[2]})

\* some item of the plan lists a dependency id that no item of the plan has
PlanHasUnknownDep(p) ==
    \E i \in 1..Len(p) : \E d \in Range(p[i].deps) : d \notin PlanIds(p)

\* some item of the plan is invalid: id missing or that of an earlier item,
\* blank description, dependencies that are no array
PlanHasInvalidItem(p) ==
    \E i \in 1..Len(p) :
        \/ ~itemValid(p[i])
        \/ \E j \in 1..(i - 1) : p[j].id = p[i].id

\* valid items with distinct ids, every dependency id that of an item, no cycle
PlanValidAcyclic(p) ==
    /\ ~PlanHasInvalidItem(p)
    /\ \A e \in PlanEdges(p) : e[2] \in PlanIds(p)
    /\ ~PlanHasCycle(p)

\* ------------------------------------------------------------- properties

\* C1: whenever a task has just been marked in_progress and handed to the
\* executor, every id in its dependsOn is a task of the graph with status
\* completed.
C1_DispatchAfterDependencies ==
    pc = "executing" =>
        /\ hasTask(tasks, taskToRun)
        /\ tasks[taskToRun].status = "in_progress"
        /\ \A d \in Range(tasks[taskToRun].dependsOn) :
               hasTask(tasks, d) /\ tasks[d].status = "completed"

C1_Witness ==
    /\ pc = "executing"
    /\ Len(tasks[taskToRun].dependsOn) >= 2

\* C2: a task that ended failed through failure results alone (it is failed
\* when the loop goes on or the run has ended, and no execution of it raised)
\* was handed to the executor exactly maxRetries + 1 times.
C2_RetryBound ==
    \A i \in TaskIndex :
        ( /\ pc \in {"loop", "stuckWait", "done", "aborted"}
          /\ tasks[i].status = "failed"
          /\ i \notin raised )
        => execCount[i] = maxRetries + 1

\* C5 as stated: for a valid acyclic plan validation succeeds, and a run in
\* which no executor call raised ends in done with every task completed or
\* failed.
C5_EndsDoneAllSettled ==
    PlanValidAcyclic(plan) =>
        /\ runError \notin PlanningErrors
        /\ (RunEnded /\ raised = {}) =>
              /\ pc = "done"
              /\ \A i \in TaskIndex : tasks[i].status \in {"completed", "failed"}

\* C5 amended: for a valid acyclic plan validation succeeds, and a run in
\* which no executor call raised ends either in done with every task
\* completed or failed, or aborted by the stuck error with every task
\* completed, failed or pending behind a dependency that is failed or itself
\* pending; no task is in_progress when the run has ended.
C5_EndsDoneOrStuck ==
    PlanValidAcyclic(plan) =>
        /\ runError \notin PlanningErrors
        /\ pc = "done" =>
              /\ \A i \in TaskIndex : tasks[i].status \in {"completed", "failed"}
              /\ emitted = {"allTasksDone"}
        /\ (pc = "aborted" /\ raised = {}) =>
              /\ runError = "stuck"
              /\ \E i \in TaskIndex : tasks[i].status = "pending"
              /\ \A i \in TaskIndex :
                    \/ tasks[i].status \in {"completed", "failed"}
                    \/ /\ tasks[i].status = "pending"
                       /\ \E d \in Range(tasks[i].dependsOn) :
                              tasks[d].status \in {"failed", "pending"}
        /\ RunEnded => \A i \in TaskIndex : tasks[i].status # "in_progress"

C5_Witness ==
    /\ PlanValidAcyclic(plan)
    /\ pc = "aborted"
    /\ runError = "stuck"
    /\ \E i \in TaskIndex : tasks[i].status = "completed"

C7_StallEndsWithoutError ==
    \A t1 \in TaskIndex : \A t2 \in TaskIndex :
        ( /\ RunEnded
          /\ raised = {}
          /\ tasks[t1].status = "failed"
          /\ DependsOn(t2, t1) )
        => /\ tasks[t2].status = "pending"
           /\ "orchestrationFailed" \notin emitted

\* C7 amended: while T1 is failed, a task T2 that depends on T1 is pending
\* and was never handed to the executor; when the run has ended in that
\* situation it was aborted, by the stuck error unless an executor call
\* raised, and orchestrationFailed (not allTasksDone) was emitted.
C7_StallEndsWithStuckError ==
    \A t1 \in TaskIndex : \A t2 \in TaskIndex :
        (tasks[t1].status = "failed" /\ DependsOn(t2, t1)) =>
            /\ tasks[t2].status = "pending"
            /\ execCount[t2] = 0
            /\ RunEnded =>
                  /\ pc = "aborted"
                  /\ emitted = {"orchestrationFailed"}
                  /\ raised = {} => runError = "stuck"

C7_Witness ==
    /\ pc = "aborted"
    /\ runError = "stuck"
    /\ \E t1 \in TaskIndex : \E t2 \in TaskIndex :
          /\ tasks[t1].status = "failed"
          /\ execCount[t1] >= 2
          /\ DependsOn(t2, t1)

\* C8 as stated: the stuck error is raised on the 5th consecutive stuck
\* iteration, whatever the tasks dispatched before the stall returned.
C8_StuckAfterFive ==
    runError = "stuck" => stuckIterations = MAX_CONSECUTIVE_FAILURES

\* C8 amended: the stuck error is raised on the stuck iteration at which
\* consecutiveFailures exceeds 5; the counter also counts the failure of the
\* task dispatched last before the stall, so this is the 5th consecutive
\* stuck iteration when that execution failed and the 6th when it succeeded;
\* every earlier stuck iteration waits.
C8_StuckAfterCounterExceedsFive ==
    LET carried == IF lastOutcome = "failure" THEN 1 ELSE 0
    IN /\ runError = "stuck" =>
             /\ consecutiveFailures = MAX_CONSECUTIVE_FAILURES + 1
             /\ stuckIterations = MAX_CONSECUTIVE_FAILURES + 1 - carried
       /\ pc = "stuckWait" =>
             /\ consecutiveFailures <= MAX_CONSECUTIVE_FAILURES
             /\ stuckIterations = consecutiveFailures - carried
       /\ (pc = "loop" /\ stuckIterations > 0) =>
             /\ getNextTasks(tasks) = <<>>
             /\ inProgressCount(tasks) = 0
             /\ pendingCount(tasks) > 0

C8_Witness ==
    /\ runError = "stuck"
    /\ lastOutcome = "success"
    /\ stuckIterations = MAX_CONSECUTIVE_FAILURES + 1

\* C9: once the executor raised for task T, T is failed with the exception
\* as its result, the consumer has seen its failed status event, the run
\* has ended with orchestrationFailed, and from then on no task is handed to
\* the executor and no task changes.
C9_StateAfterRaise ==
    raised # {} =>
        /\ raised = {taskToRun}
        /\ tasks[taskToRun].status = "failed"
        /\ tasks[taskToRun].result = "error"
        /\ view[taskToRun] = "failed"
        /\ activeAgents = {}
        /\ pc = "aborted"
        /\ runError = "critical"
        /\ emitted = {"orchestrationFailed"}

C9_ExecutorExceptionAborts ==
    /\ [] C9_StateAfterRaise
    /\ [][raised # {} => (execCount' = execCount /\ tasks' = tasks)]_vars

C9_Witness ==
    /\ raised # {}
    /\ \E i \in TaskIndex : tasks[i].status = "pending"
    /\ \E i \in TaskIndex : tasks[i].status = "completed"

SameFile(p, q) == relativePath(p) = relativePath(q)

\* C3: of the executions that write the same file through the acquire ->
\* write -> release section, at most one is in its write step.
C3_OneWriterPerFile ==
    \A c1 \in Execs : \A c2 \in Execs :
        ( /\ c1 # c2
          /\ SameFile(execPath[c1], execPath[c2])
          /\ epc[c1] = "writing" )
        => epc[c2] # "writing"

\* an execution holds the lock from the return of its acquireLock call until
\* its own releaseLock call
Holds(c) == acquired[c] /\ epc[c] \in {"writing", "finally"}

\* C4: an acquireLock call on a resource id returns normally only when no
\* other execution holds the lock of that resource id, i.e. every earlier
\* holder has called releaseLock.
C4_AcquireExcludesHolders ==
    [][ \A c \in Execs :
          (~acquired[c] /\ acquired'[c]) =>
              \A c2 \in Execs \ {c} :
                  execPath[c2] = execPath[c] => ~Holds(c2) ]_vars

\* the dependency relation of a task graph
GraphEdges(ts) ==
    UNION { { <<ts[i].id, d>> : d \in Range(ts[i].dependsOn) } : i \in 1..Len(ts) }

\* reference checks: some task reaches itself along dependsOn entries; every
\* dependsOn id is the id of a task
GraphHasCycle(ts) ==
    \E e \in GraphEdges(ts) : e[1] \in ReachFrom(GraphEdges(ts), {e[2]})

DepsExist(ts) == \A e \in GraphEdges(ts) : hasTask(ts, e[2])

\* C11: validateDAG returns normally exactly when every dependsOn id is the
\* id of a task of the graph and no task reaches itself along dependsOn
\* entries (the reference check by reachability), on every graph of up to
\* MaxTasks tasks and MaxDepEntries entries, duplicate entries and
\* self-dependencies included; and it throws the invalid-dependency error
\* only when some id is missing, the cycle error only when a cycle exists.
C11_ValidateDAGAgreesWithReference ==
    dagOutcome # NotCalled =>
        /\ dagOutcome.ok <=> (DepsExist(dagTasks) /\ ~GraphHasCycle(dagTasks))
        /\ dagOutcome.error = "invalid_dependency" => ~DepsExist(dagTasks)
        /\ dagOutcome.error = "cycle" => GraphHasCycle(dagTasks)

\* a graph with a duplicate dependsOn entry and no cycle was accepted
C11_Witness ==
    /\ dagOutcome.ok
    /\ \E i \in 1..Len(dagTasks) :
           /\ Len(dagTasks[i].dependsOn) = 2
           /\ dagTasks[i].dependsOn[1] = dagTasks[i].dependsOn[2]
    /\ \E i \in 1..Len(dagTasks) : Len(dagTasks[i].dependsOn) = 1

\* C12: a plan in which some item lists a dependency id that no item has is
\* rejected before any task is dispatched: planning ends the run with the
\* invalid-dependency error (which names the task and the id) and no task is
\* ever executed.
C12_UnknownDependencyIsFatal ==
    PlanHasUnknownDep(plan) =>
        /\ pc \in {"planning", "aborted"}
        /\ pc = "aborted" => runError = "invalid_dependency"
        /\ \A i \in TaskIds : execCount[i] = 0

\* C13: a plan with an invalid item is fatal: planning fails and no task of
\* the plan is dispatched, also when the other items are valid.
C13_InvalidItemIsFatal ==
    PlanHasInvalidItem(plan) =>
        /\ pc \in {"planning", "aborted"}
        /\ pc = "aborted" => runError \in PlanningErrors
        /\ \A i \in TaskIds : execCount[i] = 0

\* C14: a try of acquireLock finds the marker taken only when the marker is
\* the claim of an execution on the same resource: a lock on another
\* resource never makes acquireLock wait or fail.
C14_OnlySameResourceBlocks ==
    [][\A c \in Execs :
          attempts'[c] # attempts[c] =>
              \E d \in Execs \ {c} :
                  /\ markers[getLockfilePath(execPath[c])] = d
                  /\ SameFile(execPath[d], execPath[c])]_vars

\* the ids of the ready set: pending tasks whose dependencies are all
\* completed tasks
ReadyIds(ts) ==
    { i \in 1..Len(ts) :
        /\ ts[i].status = "pending"
        /\ \A d \in Range(ts[i].dependsOn) :
               d \in 1..Len(ts) /\ ts[d].status = "completed" }

\* the plan {T1, T2 depends on T1, T3 depends on T1}
ExamplePlan ==
    << [id |-> 1, descOk |-> TRUE, depsIsArray |-> TRUE, deps |-> <<>>],
       [id |-> 2, descOk |-> TRUE, depsIsArray |-> TRUE, deps |-> <<1>>],
       [id |-> 3, descOk |-> TRUE, depsIsArray |-> TRUE, deps |-> <<1>>] >>

\* no execution so far failed or raised: no task was marked failed
AllSucceededSoFar == \A i \in TaskIndex : tasks[i].retries <= 1

\* the dispatch order of the example is T1, T2, T3 and the run ends done
\* with all three completed after one execution each
C15_ExampleOrder ==
    (plan = ExamplePlan /\ AllSucceededSoFar) =>
        /\ execCount[2] >= 1 => tasks[1].status = "completed"
        /\ execCount[3] >= 1 => tasks[2].status = "completed"
        /\ RunEnded =>
              /\ pc = "done"
              /\ \A i \in 1..3 : tasks[i].status = "completed" /\ execCount[i] = 1

\* C15: every dispatch hands the executor the task with the lowest id of
\* the ready set (pending tasks whose dependencies are all completed); and
\* in the graph {T1, T2 depends on T1, T3 depends on T1} with all executions
\* succeeding the dispatch order is T1, T2, T3 and all three end completed.
C15_DispatchesFirstReady ==
    /\ []C15_ExampleOrder
    /\ [][(pc = "loop" /\ pc' = "executing") =>
             /\ taskToRun' \in ReadyIds(tasks)
             /\ \A j \in ReadyIds(tasks) : taskToRun' <= j
             /\ execCount' = [execCount EXCEPT ![taskToRun'] = @ + 1]]_vars

\* the example has run to its end, every task executed once
C15_Witness ==
    /\ plan = ExamplePlan
    /\ pc = "done"
    /\ \A i \in 1..3 : tasks[i].status = "completed" /\ tasks[i].retries = 1

\* C16: in every state of a run at most one task has status in_progress and
\* at most one call of worker.execute is in flight (the call awaited in
\* state executing, recorded in stats.activeAgents); a task is in_progress
\* exactly while its call is in flight.
C16_OneTaskInFlight ==
    /\ inProgressCount(tasks) <= 1
    /\ Cardinality(activeAgents) <= 1
    /\ \A i \in TaskIndex :
           tasks[i].status = "in_progress" <=> (pc = "executing" /\ taskToRun = i)
    /\ activeAgents = IF pc = "executing" THEN {taskToRun} ELSE {}

\* a second task is in flight after a first one completed, a third pending
C16_Witness ==
    /\ pc = "executing"
    /\ inProgressCount(tasks) = 1
    /\ \E i \in TaskIndex : tasks[i].status = "completed"
    /\ \E i \in TaskIndex : tasks[i].status = "pending"

\* C17: from planReady on, the status a consumer holds for each task after
\* applying the taskStatusUpdate events in arrival order is the status the
\* task has in the graph: after every event, and so at the end of the run.
C17_ConsumerViewMatchesGraph ==
    /\ Len(view) = Len(tasks)
    /\ \A i \in TaskIndex : view[i] = tasks[i].status

\* the run has ended after a retry: the consumer has seen pending,
\* in_progress, failed, pending again and the final statuses
C17_Witness ==
    /\ RunEnded
    /\ \E i \in TaskIndex : tasks[i].status = "completed" /\ tasks[i].retries = 3
    /\ \E i \in TaskIndex : tasks[i].status = "failed"
    /\ \A i \in TaskIndex : view[i] = tasks[i].status

\* when execute has returned, no entry of activeLocks holds a release
\* function obtained by that execution
C18_NoRecordLeft ==
    \A c \in Execs :
        epc[c] = "returned" => \A p \in Paths : activeLocks[p] # c

\* C18: a write section returns only through its finally block, where
\* releaseLock(p) leaves no entry for p, whether the write succeeded, the
\* write threw or acquireLock threw; so when execute has returned the
\* LockManager holds no record acquired during that execution.
C18_ReleaseOnEveryExit ==
    /\ []C18_NoRecordLeft
    /\ [][\A c \in Execs :
             (epc'[c] = "returned" /\ epc[c] # "returned") =>
                 /\ epc[c] = "finally"
                 /\ activeLocks'[execPath[c]] = 0]_vars

\* three executions have returned: one whose acquireLock threw, one whose
\* write threw, one that wrote
C18_Witness ==
    /\ \A c \in Execs : epc[c] = "returned"
    /\ \E c \in Execs : attempts[c] > LockRetries
    /\ \E c \in Execs : acquired[c] /\ sectionError[c]
    /\ \E c \in Execs : execResult[c] = "success"

\* an acquireLock call makes at most LockRetries + 1 tries; after that many
\* failed tries it has thrown the error naming its resource and not succeeded
C19_AcquireGivesUp ==
    \A c \in Execs :
        /\ attempts[c] <= LockRetries + 1
        /\ attempts[c] = LockRetries + 1 =>
              /\ ~acquired[c]
              /\ epc[c] \in {"finally", "returned"}
              /\ acquireError[c] = execPath[c]
              /\ epc[c] = "returned" => execResult[c] = "failure"
        /\ acquireError[c] # <<>> => attempts[c] = LockRetries + 1

\* C19: acquireLock on a resource whose marker stays taken makes a bounded
\* number of tries (1 + LockRetries), then throws an error naming the
\* resource; it never reports success, and no failed try changes
\* activeLocks or the markers.
C19_BoundedAcquireFails ==
    /\ []C19_AcquireGivesUp
    /\ [][\A c \in Execs :
             attempts'[c] # attempts[c] =>
                 /\ activeLocks' = activeLocks
                 /\ markers' = markers
                 /\ acquired' = acquired]_vars

\* an acquireLock has failed for good while the holder is still writing
C19_Witness ==
    \E c, d \in Execs :
        /\ attempts[c] = LockRetries + 1
        /\ epc[c] = "returned"
        /\ execResult[c] = "failure"
        /\ epc[d] = "writing"
        /\ markers[getLockfilePath(execPath[c])] = d
        /\ activeLocks[execPath[d]] = d

\* C20: while the marker of a resource is the claim of a holder that died, a
\* try of acquireLock on the resource succeeds if the marker was left
\* untouched for more than StaleMs (15 s) and fails otherwise.
C20_StaleMarkerIsTakenOver ==
    [][\A c \in Execs :
          LET m == getLockfilePath(execPath[c])
          IN (markers[m] = CrashedHolder /\ epc'[c] # epc[c]
                /\ epc[c] \in {"start", "acquiring"}) =>
                 IF markerAge[m] > StaleMs
                 THEN /\ acquired'[c]
                      /\ markers'[m] = c
                      /\ attempts'[c] = attempts[c]
                 ELSE /\ ~acquired'[c]
                      /\ markers'[m] = CrashedHolder
                      /\ attempts'[c] = attempts[c] + 1]_vars

\* an execution gave up before the marker was stale, another took the
\* marker over afterwards
C20_Witness ==
    \E c, d \in Execs :
        /\ attempts[c] = LockRetries + 1
        /\ ~acquired[c]
        /\ acquired[d]
        /\ epc[d] = "writing"
        /\ markers[getLockfilePath(execPath[d])] = d

\* C21: releaseLock on a resource for which activeLocks has no record changes
\* neither activeLocks nor any lock marker, logs a warning and returns
\* normally: the write section's result is a failure only if the section
\* itself had failed. A release that follows a successful release of the
\* same resource is such a call.
C21_ReleaseWithoutRecordIsNoOp ==
    [][\A c \in Execs :
          (epc[c] = "finally" /\ epc'[c] = "returned"
              /\ activeLocks[execPath[c]] = 0) =>
                /\ activeLocks' = activeLocks
                /\ markers' = markers
                /\ markerAge' = markerAge
                /\ releaseLog'[c] = "warned"
                /\ execResult'[c] = IF sectionError[c] THEN "failure"
                                                       ELSE "success"]_vars

\* a releaseLock of a resource has succeeded and a later releaseLock of the
\* same resource found no record, warned and let its write section succeed
C21_Witness ==
    \E c, d \in Execs :
        /\ c # d
        /\ execPath[c] = execPath[d]
        /\ releaseLog[d] = "released"
        /\ releaseLog[c] = "warned"
        /\ execResult[c] = "success"

\* ids a method of the graph may be called with: those of its tasks, 0 and
\* the id the next task would get
CallIds == 0..(MaxApiTasks + 1)

\* C22: markStatus(id, s) on an existing task sets that task's status to s,
\* adds exactly one to its retries when s is failed or in_progress and leaves
\* retries as it was when s is pending or completed, and changes no other
\* task; so a task never marked before has retries 1 after its first
\* in_progress, and an attempt that fails (in_progress, then failed) adds 2.
C22_MarkStatusCountsRetries ==
    \A id \in 1..Len(graph) : \A r \in {"undefined", "r"} :
        /\ \A s \in Statuses :
              LET after == markStatus(graph, id, s, r)
              IN /\ Len(after) = Len(graph)
                 /\ after[id].status = s
                 /\ s \in {"failed", "in_progress"} =>
                        after[id].retries = graph[id].retries + 1
                 /\ s \in {"pending", "completed"} =>
                        after[id].retries = graph[id].retries
                 /\ \A k \in 1..Len(graph) : k # id => after[k] = graph[k]
                 /\ markStatusReturns(graph, id)
        /\ graph[id] = NewTask(id, graph[id].dependsOn) =>
              markStatus(graph, id, "in_progress", r)[id].retries = 1
        /\ LET started == markStatus(graph, id, "in_progress", r)
               failed == markStatus(started, id, "failed", r)
           IN failed[id].retries = graph[id].retries + 2

\* one task has failed its first attempt (retries 2) and another has just been
\* marked in_progress for the first time (retries 1)
C22_Witness ==
    \E i, j \in 1..Len(graph) :
        /\ graph[i].status = "failed" /\ graph[i].retries = 2
        /\ graph[j].status = "in_progress" /\ graph[j].retries = 1

\* C23: resetTaskForRetry(id) changes the graph only when the task exists and
\* is failed: it then sets the status to pending, returns true and leaves
\* retries, result and every other task as they were; for an id of no task
\* and for a pending, in_progress or completed task it returns false and
\* changes nothing. Applied twice it gives the graph it gives applied once.
C23_ResetOnlyFailed ==
    \A id \in CallIds :
        LET once == resetTaskForRetry(graph, id)
            twice == resetTaskForRetry(once, id)
        IN /\ IF id \in 1..Len(graph) /\ graph[id].status = "failed"
              THEN /\ resetTaskForRetryReturns(graph, id) = TRUE
                   /\ Len(once) = Len(graph)
                   /\ once[id].status = "pending"
                   /\ once[id].retries = graph[id].retries
                   /\ once[id].result = graph[id].result
                   /\ once[id].id = id
                   /\ once[id].dependsOn = graph[id].dependsOn
                   /\ \A k \in 1..Len(graph) : k # id => once[k] = graph[k]
              ELSE /\ resetTaskForRetryReturns(graph, id) = FALSE
                   /\ once = graph
           /\ twice = once
           /\ resetTaskForRetryReturns(once, id) = FALSE

\* one task was reset after its failed attempt (pending, with the retries and
\* the result of that attempt) while another task of the graph is failed
C23_Witness ==
    \E i, j \in 1..Len(graph) :
        /\ graph[i].status = "pending"
        /\ graph[i].retries = 2
        /\ graph[i].result = "r"
        /\ graph[j].status = "failed"

\* the ids of the tasks of the array a getNextTasks call returned
ReturnedIds(r) == { r[k].id : k \in 1..Len(r) }

\* what getNextTasks returns on the current graph: tasks of the graph, in the
\* order they were added, exactly those that are pending with every
\* dependsOn id that of a completed task
C24_ReadyListExact ==
    LET r == getNextTasks(graph)
    IN /\ \A k \in 1..Len(r) : r[k].id \in 1..Len(graph) /\ r[k] = graph[r[k].id]
       /\ \A k \in 1..(Len(r) - 1) : r[k].id < r[k + 1].id
       /\ ReturnedIds(r) = ReadyIds(graph)
       /\ \A i \in 1..Len(graph) :
             /\ (graph[i].status = "pending" /\ graph[i].dependsOn = <<>>)
                    => i \in ReturnedIds(r)
             /\ (\E d \in Range(graph[i].dependsOn) : d \notin 1..Len(graph))
                    => i \notin ReturnedIds(r)

\* C24: getNextTasks returns, in insertion order, exactly the tasks that are
\* pending and whose every dependsOn id belongs to a completed task (a
\* pending task without dependencies is returned, a task with a dependency id
\* of no task never is), and the call changes no task and nothing else of
\* the graph.
C24_GetNextTasksExactAndPure ==
    /\ []C24_ReadyListExact
    /\ [][ready' # <<>> =>
             /\ graph' = graph
             /\ ReturnedIds(ready') = ReadyIds(graph)]_vars

\* a call has returned the second task alone: the first is completed and is
\* the second's only dependency
C24_Witness ==
    /\ Len(graph) = 2
    /\ graph[1].status = "completed"
    /\ graph[2].dependsOn = <<1>>
    /\ Len(ready) = 1
    /\ ready[1].id = 2

RunErrors == PlanningErrors \cup {"critical", "stuck"}

\* at most one terminal event; a run that ended normally has emitted
\* allTasksDone alone, a run ended by an error orchestrationFailed alone, a
\* run still going neither; an error or a raising executor always ends the
\* run; a run that is not plan-only does not stop after planning
C25_TerminalEventMatchesEnd ==
    /\ emitted \subseteq {"allTasksDone", "orchestrationFailed"}
    /\ Cardinality(emitted) <= 1
    /\ pc = "done" => emitted = {"allTasksDone"} /\ runError = "none"
    /\ pc = "aborted" => emitted = {"orchestrationFailed"} /\ runError \in RunErrors
    /\ ~RunEnded => emitted = {} /\ runError = "none" /\ raised = {}
    /\ raised # {} => runError = "critical"
    /\ ~planOnly => pc # "planned"

\* C25: a run that is not plan-only emits one of allTasksDone and
\* orchestrationFailed, once, when it ends, and never the other; a run ended
\* by a planning error, by an exception of the executor or by the stuck error
\* has emitted orchestrationFailed.
C25_ExactlyOneTerminalEvent ==
    /\ []C25_TerminalEventMatchesEnd
    /\ [][/\ ~RunEnded
          /\ emitted' # emitted =>
                /\ emitted = {}
                /\ Cardinality(emitted') = 1
                /\ RunEnded']_vars

\* a run that was not plan-only, had dispatched a task and got stuck has ended
\* with orchestrationFailed alone
C25_Witness ==
    /\ ~planOnly
    /\ pc = "aborted"
    /\ runError = "stuck"
    /\ emitted = {"orchestrationFailed"}
    /\ \E i \in TaskIndex : tasks[i].status = "completed"

\* C26: allTasksDone is emitted only when no task of the graph is pending or
\* in_progress: every task is completed or failed, then and afterwards.
C26_AllTasksDoneMeansNoneOpen ==
    "allTasksDone" \in emitted =>
        /\ \A i \in TaskIndex : tasks[i].status \in {"completed", "failed"}
        /\ pendingCount(tasks) = 0
        /\ inProgressCount(tasks) = 0
        /\ activeAgents = {}

\* allTasksDone was emitted for a graph with a completed and a failed task
C26_Witness ==
    /\ "allTasksDone" \in emitted
    /\ \E i \in TaskIndex : tasks[i].status = "completed"
    /\ \E i \in TaskIndex : tasks[i].status = "failed"

\* the tasks t depends on, directly or through other tasks
DependenciesOf(t) == ReachFrom(GraphEdges(tasks), Range(tasks[t].dependsOn))

\* failed for good: failed with the retries used up, or failed in a run that
\* has ended
PermanentlyFailed(t) ==
    /\ tasks[t].status = "failed"
    /\ \/ ~retryAllowed(tasks[t].retries)
       \/ RunEnded

\* C27: a task that depends, directly or through other tasks, on a
\* permanently failed task is never dispatched: it is pending with retries 0,
\* was never handed to the executor and has no status event, at any time up
\* to and including the end of the run.
C27_BlockedTaskNeverDispatched ==
    \A t \in TaskIndex :
        (\E f \in DependenciesOf(t) : PermanentlyFailed(f)) =>
            /\ tasks[t].status = "pending"
            /\ tasks[t].retries = 0
            /\ execCount[t] = 0
            /\ events[t] = <<>>
            /\ t \notin activeAgents

\* the run has ended with a chain T1 <- T2 <- T3 whose first task failed after
\* its retries: T3 depends on it only through T2
C27_Witness ==
    /\ RunEnded
    /\ \E f, m, t \in TaskIndex :
          /\ PermanentlyFailed(f) /\ ~retryAllowed(tasks[f].retries)
          /\ tasks[m].dependsOn = <<f>>
          /\ tasks[t].dependsOn = <<m>>
          /\ f # m /\ m # t /\ f # t

\* C28: when the run has ended and no executor call raised, every task whose
\* direct and transitive dependencies are all completed was handed to the
\* executor (and ended completed or failed), whatever other tasks failed
\* permanently before it.
C28_UnblockedTaskWasDispatched ==
    (RunEnded /\ raised = {}) =>
        \A t \in TaskIndex :
            (\A d \in DependenciesOf(t) :
                 d \in TaskIndex /\ tasks[d].status = "completed") =>
                /\ execCount[t] >= 1
                /\ tasks[t].status \in {"completed", "failed"}
                /\ Len(events[t]) >= 1

\* the run has ended without an executor exception; a task added earlier
\* failed permanently, and a later task with a dependency, all completed, was
\* run and completed
C28_Witness ==
    /\ RunEnded
    /\ raised = {}
    /\ \E f, t \in TaskIndex :
          /\ f < t
          /\ tasks[f].status = "failed"
          /\ f \notin DependenciesOf(t)
          /\ tasks[t].dependsOn # <<>>
          /\ \A d \in DependenciesOf(t) : tasks[d].status = "completed"
          /\ tasks[t].status = "completed"
          /\ execCount[t] = 1

\* the largest value retries takes: a task failed with retries <= maxRetries is
\* run once more, which adds 2
RetriesCap == maxRetries + 2

\* what a task can still do: 2 per retries increment left, and 1 for the
\* change that comes without an increment (failed to pending, in_progress to
\* completed)
TaskRank(t) ==
    2 * (RetriesCap - t.retries)
        + (IF t.status \in {"failed", "in_progress"} THEN 1 ELSE 0)

RECURSIVE GraphRank(_)
GraphRank(ts) ==
    IF ts = <<>> THEN 0 ELSE TaskRank(Head(ts)) + GraphRank(Tail(ts))

PcRank ==
    CASE pc \in {"done", "aborted", "planned"} -> 0
      [] pc = "loop" -> 1
      [] OTHER -> 2

\* consecutiveFailures stops at MAX_CONSECUTIVE_FAILURES + 1, where the stuck
\* branch throws
LoopRank == 3 * (MAX_CONSECUTIVE_FAILURES + 1 - consecutiveFailures) + PcRank

LoopRankCap == 3 * (MAX_CONSECUTIVE_FAILURES + 1) + 3

\* a natural number that every step of a run makes smaller: first by what
\* the tasks can still do, then by the stuck iterations left, then by the
\* position in the loop; before planning it is above every later value
Rank ==
    IF pc = "planning"
    THEN LoopRankCap * (2 * RetriesCap * MaxTasks + 1)
    ELSE LoopRankCap * GraphRank(tasks) + LoopRank

C29_Bounded ==
    /\ Rank >= 0
    /\ consecutiveFailures <= MAX_CONSECUTIVE_FAILURES + 1
    /\ stuckIterations <= MAX_CONSECUTIVE_FAILURES + 1
    /\ \A t \in TaskIndex :
          /\ tasks[t].retries <= RetriesCap
          /\ 2 * execCount[t] <= maxRetries + 2

\* C29 as stated: every step brings the run closer to its end, and a run that
\* has come to rest (no call pending, no step left) has emitted allTasksDone
\* or orchestrationFailed.
C29_EveryRunEndsWithEvent ==
    pc \in {"done", "aborted", "planned"} => emitted # {}

\* C29 amended: every step of a run makes Rank smaller, so no run has more
\* than Rank steps and the dispatch loop cannot iterate forever: each task is
\* dispatched at most maxRetries / 2 + 1 times and at most
\* MAX_CONSECUTIVE_FAILURES + 1 stuck iterations follow one another. A run
\* comes to rest only ended, with exactly one of allTasksDone and
\* orchestrationFailed, or, when it is plan-only, after planning with neither.
C29_EveryRunTerminates ==
    /\ []C29_Bounded
    /\ [](pc = "planned" => planOnly /\ emitted = {})
    /\ [](RunEnded => Cardinality(emitted) = 1)
    /\ [][Rank' < Rank]_vars

\* a run used every stuck iteration after a task had failed both its attempts
C29_Witness ==
    /\ pc = "aborted"
    /\ stuckIterations = MAX_CONSECUTIVE_FAILURES
    /\ consecutiveFailures = MAX_CONSECUTIVE_FAILURES + 1
    /\ \E t \in TaskIndex : tasks[t].retries = RetriesCap - 1 /\ execCount[t] = 2

\* C30: the taskStatusUpdate events of each task are ordered: the first is
\* in_progress, every completed or failed event comes directly after an
\* in_progress event of the task, a pending event comes only directly after
\* a failed event, and no event follows completed. The last event is the
\* status the task has in the graph.
C30_StatusEventsOrdered ==
    /\ Len(events) = Len(tasks)
    /\ \A t \in TaskIndex :
          LET e == events[t]
          IN /\ Len(e) >= 1 => e[1] = "in_progress" /\ e[Len(e)] = tasks[t].status
             /\ Len(e) = 0 => tasks[t].status = "pending"
             /\ \A k \in 1..Len(e) :
                   /\ e[k] \in {"completed", "failed"} =>
                          k > 1 /\ e[k - 1] = "in_progress"
                   /\ e[k] = "pending" => k > 1 /\ e[k - 1] = "failed"
                   /\ e[k] = "completed" => k = Len(e)

\* a task failed, was retried and completed, and another task failed both
\* its attempts
C30_Witness ==
    \E t, u \in TaskIndex :
        /\ events[t] = <<"in_progress", "failed", "pending", "in_progress", "completed">>
        /\ events[u] = <<"in_progress", "failed", "pending", "in_progress", "failed">>

\* C31: at every agentStatusUpdate emission the task ids of the payload are
\* the ids of the tasks whose status is in_progress in the graph at that
\* instant.
C31_AgentPayloadIsInProgressSet ==
    agentUpdate.sent => agentUpdate.payload = agentUpdate.inProgress

\* the number of tasks of a graph with a status
CountOf(ts, status) == Cardinality({ i \in 1..Len(ts) : ts[i].status = status })

\* C32: every statsUpdate payload carries tasksTotal, tasksCompleted and
\* tasksFailed equal to the number of all, completed and failed tasks of the
\* orchestrator's task graph at the instant of emission, whether the event
\* comes from a state change, from an LLM-call count or from the timer; so
\* tasksCompleted + tasksFailed <= tasksTotal in every payload.
C32_StatsPayloadMatchesGraph ==
    \A u \in statsUpdates :
        /\ u.payload.tasksTotal = Len(u.graph)
        /\ u.payload.tasksCompleted = CountOf(u.graph, "completed")
        /\ u.payload.tasksFailed = CountOf(u.graph, "failed")
        /\ u.payload.tasksCompleted + u.payload.tasksFailed <= u.payload.tasksTotal

\* the timer or an LLM call has emitted while a task was being executed, with
\* a completed and a failed task in the graph
C32_Witness ==
    /\ pc = "executing"
    /\ \E u \in statsUpdates :
          /\ u.graph = tasks
          /\ u.payload.tasksCompleted = 1
          /\ u.payload.tasksFailed = 1
          /\ u.payload.tasksTotal = 3

\* the task lies on a cycle of the dependsOn relation
OnCycle(ts, i) == i \in ReachFrom(GraphEdges(ts), Range(ts[i].dependsOn))

\* the task lies on a cycle or depends, directly or through other tasks, on a
\* task that does
BehindCycle(ts, i) ==
    \E c \in ReachFrom(GraphEdges(ts), Range(ts[i].dependsOn)) \cup {i} :
        c \in 1..Len(ts) /\ OnCycle(ts, c)

\* C33: when validateDAG fails with the cycle error, the ids it reports
\* include every task that lies on a cycle and are exactly the tasks that lie
\* on a cycle or transitively depend on one; for {T1 depends on T2, T2
\* depends on T1} they are {1, 2}.
C33_CycleReportExact ==
    (dagOutcome # NotCalled /\ dagOutcome.error = "cycle") =>
        /\ \A i \in 1..Len(dagTasks) : OnCycle(dagTasks, i) => i \in dagOutcome.nodes
        /\ dagOutcome.nodes = { i \in 1..Len(dagTasks) : BehindCycle(dagTasks, i) }
        /\ ( /\ Len(dagTasks) = 2
             /\ dagTasks[1].dependsOn = <<2>>
             /\ dagTasks[2].dependsOn = <<1>> ) => dagOutcome.nodes = {1, 2}

\* validateDAG reported the cycle of T1 and T2 together with T3, which only
\* depends on T1
C33_Witness ==
    /\ dagOutcome # NotCalled
    /\ dagOutcome.error = "cycle"
    /\ Len(dagTasks) = 3
    /\ dagTasks[1].dependsOn = <<2>>
    /\ dagTasks[2].dependsOn = <<1>>
    /\ dagTasks[3].dependsOn = <<1>>
    /\ dagOutcome.nodes = {1, 2, 3}

\* C34: WorkerAgent.execute never throws: every execution returns a
\* TaskResult, and the result has success = false whenever acquireLock, the
\* write or releaseLock threw (success = true only when none of them did).
C34_ExecuteNeverThrows ==
    \A c \in Execs :
        epc[c] = "returned" =>
            /\ execResult[c] \in {"success", "failure"}
            /\ execResult[c] = "failure" <=>
                   \/ acquireError[c] # <<>>
                   \/ sectionError[c]
                   \/ releaseLog[c] = "failed"

\* one execution returned after its acquireLock failed, another after its
\* write succeeded and its releaseLock threw
C34_Witness ==
    \E c, d \in Execs :
        /\ epc[c] = "returned" /\ acquireError[c] # <<>>
        /\ execResult[c] = "failure"
        /\ epc[d] = "returned" /\ ~sectionError[d] /\ releaseLog[d] = "failed"
        /\ execResult[d] = "failure"

\* C35: each time the dispatch loop recomputes the ready set, every failed
\* task has retries > maxRetries, and a task with failures that still has a
\* retry left and is not completed is pending; a failed task whose retries
\* are used up is never touched or dispatched again.
C35_FailedAtLoopIsPermanent ==
    /\ [](pc = "loop" =>
            \A t \in TaskIndex :
                /\ tasks[t].status = "failed" => tasks[t].retries > maxRetries
                /\ (tasks[t].retries > 0 /\ tasks[t].retries <= maxRetries
                      /\ tasks[t].status # "completed")
                       => tasks[t].status = "pending")
    /\ [][\A t \in TaskIndex :
            (tasks[t].status = "failed" /\ tasks[t].retries > maxRetries) =>
                /\ tasks'[t] = tasks[t]
                /\ execCount'[t] = execCount[t]]_vars

\* the loop is entered with one task failed for good and another one waiting
\* for a retry
C35_Witness ==
    /\ pc = "loop"
    /\ \E f, t \in TaskIndex :
          /\ tasks[f].status = "failed" /\ tasks[f].retries > maxRetries
          /\ tasks[t].status = "pending" /\ tasks[t].retries > 0

\* the status changes the scheduler makes
SchedulerTransitions ==
    { <<"pending", "in_progress">>, <<"in_progress", "completed">>,
      <<"in_progress", "failed">>, <<"failed", "pending">> }

\* C36: in every step of a run no task leaves the graph, and every task
\* keeps its id and dependsOn, never loses retries, stays completed once
\* completed and changes its status only along pending -> in_progress,
\* in_progress -> completed, in_progress -> failed and failed -> pending.
C36_StatusChangesAlongLifecycle ==
    [][/\ Len(tasks') >= Len(tasks)
       /\ \A t \in TaskIndex :
             /\ tasks'[t].id = tasks[t].id
             /\ tasks'[t].dependsOn = tasks[t].dependsOn
             /\ tasks'[t].retries >= tasks[t].retries
             /\ tasks[t].status = "completed" => tasks'[t].status = "completed"
             /\ tasks'[t].status # tasks[t].status =>
                    <<tasks[t].status, tasks'[t].status>> \in SchedulerTransitions]_vars

\* a task failed once, was retried and completed: it took all four changes
C36_Witness ==
    \E t \in TaskIndex :
        /\ events[t] = <<"in_progress", "failed", "pending", "in_progress", "completed">>
        /\ tasks[t].status = "completed"
        /\ tasks[t].retries = 3

\* C37: the stuck error is raised from the empty-ready-set branch of the
\* loop only, in a graph with no ready and no in_progress task and a pending
\* task one of whose dependencies is failed, and only after
\* MAX_CONSECUTIVE_FAILURES iterations with an empty ready set: the
\* increment a failure result adds to the counter never suffices.
C37_StuckOnlyBehindFailedDependency ==
    /\ [](runError = "stuck" =>
            /\ getNextTasks(tasks) = <<>>
            /\ inProgressCount(tasks) = 0
            /\ \E t \in TaskIndex :
                  /\ tasks[t].status = "pending"
                  /\ \E d \in Range(tasks[t].dependsOn) :
                        hasTask(tasks, d) /\ tasks[d].status = "failed"
            /\ stuckIterations >= MAX_CONSECUTIVE_FAILURES)
    /\ [][(runError # "stuck" /\ runError' = "stuck") =>
            (pc = "loop" /\ getNextTasks(tasks) = <<>> /\ tasks' = tasks)]_vars

\* the run was aborted as stuck after a failure result had raised the counter
\* to one and five iterations with an empty ready set followed
C37_Witness ==
    /\ runError = "stuck"
    /\ lastOutcome = "failure"
    /\ stuckIterations = MAX_CONSECUTIVE_FAILURES
    /\ consecutiveFailures = MAX_CONSECUTIVE_FAILURES + 1

\* C38: every statsUpdate emitted between the start of a run and the
\* moment its plan is ready reports tasksTotal = tasksCompleted =
\* tasksFailed = 0, in the first run of the instance and in every later one.
C38_StatsZeroBeforePlan ==
    \A u \in statsUpdates :
        u.beforePlan =>
            /\ u.payload.tasksTotal = 0
            /\ u.payload.tasksCompleted = 0
            /\ u.payload.tasksFailed = 0

\* C39: when an execution holds the lock it acquired under the path p and
\* releaseLock(q) is called with another path q that is normalized to the
\* same lock marker, the call frees the marker.
C39_ReleaseByAliasFreesMarker ==
    [][\A c, d \in Execs :
          (/\ epc[c] = "writing"
           /\ activeLocks[execPath[c]] = c
           /\ markers[getLockfilePath(execPath[c])] = c
           /\ execPath[d] # execPath[c]
           /\ getLockfilePath(execPath[d]) = getLockfilePath(execPath[c])
           /\ epc[d] = "finally" /\ epc'[d] = "returned")
          => markers'[getLockfilePath(execPath[c])] = 0]_vars

\* C40: whenever the dispatch loop evaluates its condition or recomputes the
\* ready set no task is in_progress; so with an empty ready set and a true
\* loop condition some task is pending, and neither the branch that waits
\* for in_progress tasks nor the final break is taken.
C40_NothingInProgressAtLoop ==
    pc = "loop" =>
        /\ inProgressCount(tasks) = 0
        /\ (loopCondition(tasks) /\ getNextTasks(tasks) = <<>>) =>
               (inProgressCount(tasks) = 0 /\ pendingCount(tasks) > 0)

\* the loop finds the ready set empty after tasks have been dispatched
C40_Witness ==
    /\ pc = "loop"
    /\ loopCondition(tasks)
    /\ getNextTasks(tasks) = <<>>
    /\ \E t \in TaskIndex : execCount[t] > 0

====
